---- MODULE Spec2Model ----
(***************************************************************************)
(* The useHabits hook (hooks/useHabits) of habit-hugger: the in-memory     *)
(* habit and entry collections, the requests it sends to the remote store  *)
(* (tables public.habits and public.habit_entries) and the queries the     *)
(* pages derive from the entries (isCompletedOnDate, getStreak).           *)
(*                                                                         *)
(* Every store round trip is asynchronous: a call takes its snapshot of    *)
(* the state and sends its request (…Start), the store serves the request  *)
(* (Store…), and the continuation after the await applies the response     *)
(* (…Receive).  Requests of different calls interleave freely.             *)
(***************************************************************************)
EXTENDS Integers, Sequences, FiniteSets, TLC

VARIABLES
    today,      \* the calendar day `new Date()` falls on (days since 2024-01-01)
    dbHabits,   \* rows of public.habits
    dbEntries,  \* rows of public.habit_entries
    habits,     \* useState<Habit[]>
    entries,    \* useState<HabitEntry[]>
    loading,    \* useState(true)
    inflight,   \* the calls suspended at their await, in the order they were issued
    nextId,     \* source of gen_random_uuid() / now()
    ops,        \* number of calls the user has issued
    last,       \* history: the toggleEntry call that returned last
    deleted,    \* history: ids whose deleteHabit returned true
    result,     \* history: what the create, update, delete or toggle call that
                \* returned last handed to its caller
    errors,       \* HabitForm: useState<{ name?, description? }>({})
    formFrequency, \* HabitForm: const [frequency, setFrequency] = useState('daily')
    selectedDays, \* HabitForm: useState<string[]>([...all seven days])
    editing       \* HabitForm: useParams().id, 0 on the route /habits/new

\* the state of the habit form
form == <<errors, formFrequency, selectedDays, editing>>

vars == <<today, dbHabits, dbEntries, habits, entries, loading, inflight,
          nextId, ops, last, deleted, result, errors, formFrequency, selectedDays,
          editing>>

----------------------------------------------------------------------------
(* Bounds of the model *)

\* user calls per behaviour
MaxOps == 2
\* calls suspended at the same time
MaxInFlight == 2
\* the days today, today-1, ... the user toggles (plus one day before the window)
NumDays == 3

(* Program constants *)

\* fetchEntries = async (days = 30)
WindowDays == 30

\* the signed-in user (useAuth().user.id)
UserId == "u1"

----------------------------------------------------------------------------
(* Calendar: date-fns on local calendar days.  A Date is the number of     *)
(* days since 2024-01-01 (a Monday, a leap year); 'yyyy-MM-dd' strings are *)
(* <<year, month, day>>, whose lexicographic order is the order of the     *)
(* strings and of the store's DATE values.                                 *)

MonthLen(m) ==
    CASE m = 2 -> 29
      [] m \in {4, 6, 9, 11} -> 30
      [] OTHER -> 31

RECURSIVE MonthDay(_, _)
MonthDay(n, m) ==
    IF n < MonthLen(m) THEN <<2024, m, n + 1>> ELSE MonthDay(n - MonthLen(m), m + 1)

\* format(date, 'yyyy-MM-dd')
format(n) == MonthDay(n, 1)

\* subDays(date, k)
subDays(n, k) == n - k

\* format(date, 'EEE'): 0 = Mon ... 6 = Sun
WeekdayOf(n) == n % 7

\* the store's DATE comparison (.gte / .lte)
DateLE(a, b) ==
    \/ a[1] < b[1]
    \/ a[1] = b[1] /\ a[2] < b[2]
    \/ a[1] = b[1] /\ a[2] = b[2] /\ a[3] <= b[3]

\* the days the pages offer for toggling: Dashboard's selectedDate walks back
\* from today without limit, HabitDetail shows the last 14 days
Days == {subDays(today, i) : i \in 0 .. NumDays - 1} \cup {subDays(today, WindowDays + 1)}

Dates == {format(n) : n \in Days}

----------------------------------------------------------------------------
(* Rows *)

NoDate == <<0, 0, 0>>

\* `undefined` from entries.find / no row in a response
NoEntry == [id |-> 0, habit_id |-> 0, date |-> NoDate, completed |-> FALSE]

\* a string of the program is the sequence of its characters
NoArgs == [name |-> <<>>, description |-> <<>>, frequency |-> ""]

\* SQL NULL / JavaScript null in a text column
Null == <<"null">>

Range(s) == {s[i] : i \in DOMAIN s}

\* habits.map(h => h.id)
HabitIds == {habits[i].id : i \in DOMAIN habits}

\* CHECK (frequency IN ('daily', 'weekly'))
DbFrequencies == {"daily", "weekly"}

----------------------------------------------------------------------------
(* Queries of the hook *)

\* entries.find(e => e.habit_id === habitId && e.date === date)
FindEntry(es, habitId, date) ==
    IF \E i \in DOMAIN es : es[i].habit_id = habitId /\ es[i].date = date
    THEN LET i == CHOOSE i \in DOMAIN es :
                     /\ es[i].habit_id = habitId /\ es[i].date = date
                     /\ \A j \in DOMAIN es :
                            (es[j].habit_id = habitId /\ es[j].date = date) => i <= j
         IN es[i]
    ELSE NoEntry

\* entries.some(e => e.habit_id === habitId && e.date === date && e.completed)
SomeEntryAnyFlag(es, habitId, date) ==
    \E i \in DOMAIN es : es[i].habit_id = habitId /\ es[i].date = date

SomeCompleted(es, habitId, date) ==
    \E i \in DOMAIN es : es[i].habit_id = habitId /\ es[i].date = date /\ es[i].completed

isCompletedOnDate(habitId, date) == SomeCompleted(entries, habitId, date)

RECURSIVE StreakWalk(_, _, _)
StreakWalk(habitId, currentDate, streak) ==
    IF isCompletedOnDate(habitId, format(currentDate))
    THEN StreakWalk(habitId, subDays(currentDate, 1), streak + 1)
    ELSE streak

\* FREQUENCY_OPTIONS[...].days, as weekdays 0 = Mon ... 6 = Sun; no option for a
\* value the form does not offer
FrequencyDaysSundayFirst(frequency) ==
    CASE frequency = "daily" -> 0 .. 6
      [] frequency = "weekdays" -> {6, 0, 1, 2, 3}
      [] frequency = "weekends" -> {4, 5}
      [] OTHER -> {}

FrequencyDays(frequency) ==
    CASE frequency = "daily" -> 0 .. 6
      [] frequency = "weekdays" -> 0 .. 4
      [] frequency = "weekends" -> {5, 6}
      [] OTHER -> {}

\* the days of a set as the array that lists them from 'mon' to 'sun'
RECURSIVE Ascending(_)
Ascending(days) ==
    IF days = {} THEN <<>>
    ELSE LET d == CHOOSE d \in days : \A e \in days : d <= e
         IN <<d>> \o Ascending(days \ {d})

\* FREQUENCY_OPTIONS.find(o => o.value === value).days
OptionDays(value) == Ascending(FrequencyDays(value))

\* ['mon', 'tue', 'wed', 'thu', 'fri', 'sat', 'sun']
AllDays == Ascending(0 .. 6)

\* a streak that forgives a today not yet completed
getStreakGraceDay(habitId) ==
    IF isCompletedOnDate(habitId, format(today))
    THEN StreakWalk(habitId, today, 0)
    ELSE StreakWalk(habitId, subDays(today, 1), 0)

\* a streak that passes over the days the habit's frequency does not ask for
\* (a weekly habit asking for Mondays)
RECURSIVE StreakWalkDue(_, _, _, _)
StreakWalkDue(habitId, due, currentDate, streak) ==
    IF isCompletedOnDate(habitId, format(currentDate))
    THEN StreakWalkDue(habitId, due, subDays(currentDate, 1), streak + 1)
    ELSE IF WeekdayOf(currentDate) \notin due /\ currentDate > subDays(today, 7)
    THEN StreakWalkDue(habitId, due, subDays(currentDate, 1), streak)
    ELSE streak

getStreakWhenDue(habitId) ==
    LET h == CHOOSE h \in Range(habits) : h.id = habitId
        due == IF h.frequency = "weekly" THEN {0} ELSE FrequencyDays(h.frequency)
    IN StreakWalkDue(habitId, due, today, 0)

getStreak(habitId) == StreakWalk(habitId, today, 0)

\* currentDate = subDays(currentDate, 1)
StepBackNowhere(currentDate) == currentDate

StepBack(currentDate) == subDays(currentDate, 1)

\* the `while (true)` of getStreak run for at most `fuel` tests of its
\* condition: the streak counted and whether the loop reached its `break`
RECURSIVE StreakLoop(_, _, _, _)
StreakLoop(habitId, currentDate, streak, fuel) ==
    IF fuel = 0 THEN [streak |-> streak, stopped |-> FALSE]
    ELSE IF isCompletedOnDate(habitId, format(currentDate))
    THEN StreakLoop(habitId, StepBack(currentDate), streak + 1, fuel - 1)
    ELSE [streak |-> streak, stopped |-> TRUE]

\* entries.filter(e => e.habit_id === habitId)
getEntriesForHabit(habitId) == SelectSeq(entries, LAMBDA e : e.habit_id = habitId)

----------------------------------------------------------------------------
(* The remote store.  Row-level security lets the signed-in user see and   *)
(* write only the rows of their own habits; every request can also fail    *)
(* on the way (network).                                                   *)

\* what a request comes back with: { data, error }
Response(error, data) == [error |-> error, data |-> data]

\* USING / WITH CHECK (EXISTS habits WHERE id = habit_id AND user_id = auth.uid())
OwnsHabit(habitId) == \E h \in dbHabits : h.id = habitId /\ h.user_id = UserId

EntryRow(id, habitId, date, completed) ==
    [id |-> id, habit_id |-> habitId, date |-> date, completed |-> completed]

\* UNIQUE(habit_id, date) holds of the table with `row` added
UniqueKeyNotEnforced(row) == TRUE

\* a key of the date alone
UniqueKeyOfDate(row) == ~ \E e \in dbEntries : e.date = row.date

UniqueKeyFree(row) ==
    ~ \E e \in dbEntries : e.habit_id = row.habit_id /\ e.date = row.date

\* .insert({ habit_id, date, completed: true }).select().single()
InsertEntryOk(row) == OwnsHabit(row.habit_id) /\ UniqueKeyFree(row)

\* .update({ completed }).eq('id', id).select().single(): the rows it matches
UpdateEntryTargets(id) == {e \in dbEntries : e.id = id /\ OwnsHabit(e.habit_id)}

RECURSIVE SortById(_)
SortById(rows) ==
    IF rows = {} THEN <<>>
    ELSE LET r == CHOOSE r \in rows : \A q \in rows : r.id <= q.id
         IN <<r>> \o SortById(rows \ {r})

\* .select('*').in('habit_id', ids).gte('date', fromDate).lte('date', toDate)
SelectEntries(ids, fromDate, toDate) ==
    SortById({e \in dbEntries :
                 /\ OwnsHabit(e.habit_id)
                 /\ e.habit_id \in ids
                 /\ DateLE(fromDate, e.date)
                 /\ DateLE(e.date, toDate)})

----------------------------------------------------------------------------
(* Calls in flight *)

Request(op, habitId, date, existing, args, ids) ==
    [op |-> op, phase |-> "sent",
     habit_id |-> habitId, date |-> date, existing |-> existing,
     args |-> args, ids |-> ids,
     error |-> "none", data |-> <<>>,
     \* history, read by no action: the answer of isCompletedOnDate when the call
     \* was issued, and whether the call was issued right after a successful
     \* toggle of the same pair returned, with no other toggle of the pair running
     before |-> isCompletedOnDate(habitId, date),
     follows |-> /\ op = "toggleEntry"
                 /\ last.kind # "none" /\ last.error = "none"
                 /\ last.habit_id = habitId /\ last.date = date
                 /\ ~ \E i \in DOMAIN inflight :
                        /\ inflight[i].op = "toggleEntry"
                        /\ inflight[i].habit_id = habitId /\ inflight[i].date = date]

Returned(r, resp) == [r EXCEPT !.phase = "returned", !.error = resp.error, !.data = resp.data]

Sent(op) == {i \in DOMAIN inflight : inflight[i].op = op /\ inflight[i].phase = "sent"}

Back(op) == {i \in DOMAIN inflight : inflight[i].op = op /\ inflight[i].phase = "returned"}

\* the calls still suspended once call i has resumed
Without(i) == [j \in 1 .. Len(inflight) - 1 |-> IF j < i THEN inflight[j] ELSE inflight[j + 1]]

\* the same, none of them any longer issued right after the call that returned last
Others(i) == [j \in DOMAIN Without(i) |-> [Without(i)[j] EXCEPT !.follows = FALSE]]

NoCall ==
    [habit_id |-> 0, date |-> NoDate, kind |-> "none", error |-> "none",
     before |-> FALSE, after |-> FALSE, second |-> FALSE, orig |-> FALSE]

\* the operations that write to the store
StoreBacked == {"createHabit", "updateHabit", "deleteHabit", "toggleEntry"}

\* what the call hands to its caller once its response r is in: <<v>> for a
\* value v, <<>> for null and for undefined
\*   createHabit, updateHabit: if (!error && data) return data; return null
\*   deleteHabit:              if (!error) return true; return false
\*   toggleEntry:              no return statement
ReturnValue(r) ==
    CASE r.op \in {"createHabit", "updateHabit"} ->
             IF r.error = "none" THEN <<r.data[1]>> ELSE <<>>
      [] r.op = "deleteHabit" -> <<r.error = "none">>
      [] OTHER -> <<>>

NoResult ==
    [op |-> "none", id |-> 0, args |-> NoArgs, error |-> "none", value |-> <<>>,
     held |-> FALSE]

\* the outcome of a call: its operation, its arguments, the error of its
\* response and what it hands to its caller
ResultOf(r) ==
    [op |-> r.op, id |-> r.habit_id, args |-> r.args, error |-> r.error,
     value |-> ReturnValue(r),
     \* whether the memory holds the habit the call names
     held |-> r.habit_id \in HabitIds]

----------------------------------------------------------------------------
(* toggleEntry *)

\* !existingEntry.completed
ToggledFlagSame(existingEntry) == existingEntry.completed

\* the negation of the flag the store holds when it serves the request
ToggledFlagOfStoredRow(existingEntry) ==
    ~ (CHOOSE e \in dbEntries : e.id = existingEntry.id).completed

ToggledFlag(existingEntry) == ~ existingEntry.completed

\* .insert({ habit_id: habitId, date, completed: true })
InsertedFlagFalse == FALSE

InsertedFlag == TRUE

\* setEntries(prev => prev.map(e => e.id === data.id ? data : e))
ReplaceEntryDropUndone(prev, data) ==
    SelectSeq([i \in DOMAIN prev |-> IF prev[i].id = data.id THEN data ELSE prev[i]],
              LAMBDA e : e.id # data.id \/ e.completed)

ReplaceEntry(prev, data) ==
    [i \in DOMAIN prev |-> IF prev[i].id = data.id THEN data ELSE prev[i]]

\* setEntries(prev => [...prev, data])
AppendEntryFirst(prev, data) == <<data>> \o prev

AppendEntry(prev, data) == prev \o <<data>>

\* the call up to its await: the snapshot of `entries` picks update or insert
ToggleStart(habitId, date) ==
    /\ ops < MaxOps
    /\ Len(inflight) < MaxInFlight
    /\ inflight' = Append(inflight,
                          Request("toggleEntry", habitId, date,
                                  FindEntry(entries, habitId, date), NoArgs, {}))
    /\ ops' = ops + 1
    /\ UNCHANGED <<form, result, today, dbHabits, dbEntries, habits, entries, loading, nextId,
                   last, deleted>>

\* the store serves the update of an existing entry
StoreToggleUpdate(i, fail) ==
    /\ inflight[i].existing # NoEntry
    /\ LET r == inflight[i]
           hit == UpdateEntryTargets(r.existing.id)
           row == CHOOSE e \in hit : TRUE
           new == [row EXCEPT !.completed = ToggledFlag(r.existing)]
       IN IF fail
          THEN /\ inflight' = [inflight EXCEPT ![i] = Returned(r, Response("network", <<>>))]
               /\ UNCHANGED dbEntries
          ELSE IF hit = {}
          THEN /\ inflight' = [inflight EXCEPT ![i] = Returned(r, Response("norow", <<>>))]
               /\ UNCHANGED dbEntries
          ELSE /\ dbEntries' = (dbEntries \ {row}) \cup {new}
               /\ inflight' = [inflight EXCEPT ![i] = Returned(r, Response("none", <<new>>))]
    /\ UNCHANGED <<form, result, today, dbHabits, habits, entries, loading, nextId, ops, last, deleted>>

\* the store serves the insert of a new entry
StoreToggleInsert(i, fail) ==
    /\ inflight[i].existing = NoEntry
    /\ LET r == inflight[i]
           new == EntryRow(nextId, r.habit_id, r.date, InsertedFlag)
       IN IF fail
          THEN /\ inflight' = [inflight EXCEPT ![i] = Returned(r, Response("network", <<>>))]
               /\ UNCHANGED <<dbEntries, nextId>>
          ELSE IF ~ InsertEntryOk(new)
          THEN /\ inflight' = [inflight EXCEPT ![i] = Returned(r, Response("constraint", <<>>))]
               /\ UNCHANGED <<dbEntries, nextId>>
          ELSE /\ dbEntries' = dbEntries \cup {new}
               /\ nextId' = nextId + 1
               /\ inflight' = [inflight EXCEPT ![i] = Returned(r, Response("none", <<new>>))]
    /\ UNCHANGED <<form, result, today, dbHabits, habits, entries, loading, ops, last, deleted>>

\* the continuation after the await: if (!error && data) setEntries(...)
ToggleReceive(i) ==
    LET r == inflight[i] IN
    /\ entries' =
         IF r.error # "none" THEN entries
         ELSE IF r.existing # NoEntry THEN ReplaceEntry(entries, r.data[1])
         ELSE AppendEntry(entries, r.data[1])
    /\ inflight' = Others(i)
    /\ last' =
         LET second == r.error = "none" /\ r.follows
         IN [habit_id |-> r.habit_id, date |-> r.date,
             kind |-> IF r.existing # NoEntry THEN "update" ELSE "insert",
             error |-> r.error,
             before |-> r.before,
             after |-> SomeCompleted(entries', r.habit_id, r.date),
             second |-> second,
             orig |-> IF second THEN last.before ELSE FALSE]
    /\ result' = ResultOf(r)
    /\ UNCHANGED <<form, today, dbHabits, dbEntries, habits, loading, nextId, ops, deleted>>

----------------------------------------------------------------------------
(* A session whose habits and entries are loaded, in which the user only   *)
(* toggles.                                                                *)

TodayChoices == {61}

HabitRow(id, name, description, frequency) ==
    [id |-> id, name |-> name, description |-> description, frequency |-> frequency,
     is_archived |-> FALSE, created_at |-> id, user_id |-> UserId]

SeedHabits ==
    {HabitRow(1, <<"R", "u", "n">>, Null, "daily"),
     HabitRow(2, <<"R", "e", "a", "d">>, Null, "weekly")}

\* a habit of another user, which row-level security hides from this one
OtherUsersHabits ==
    {[HabitRow(99, <<"Y", "o", "g", "a">>, Null, "daily") EXCEPT !.user_id = "u2"]}

\* rows earlier sessions have left: the daily habit done on a day older than the
\* window, the day before yesterday and yesterday; the weekly habit marked not
\* done today
SeedEntries(t) ==
    {EntryRow(3, 1, format(subDays(t, WindowDays + 1)), TRUE),
     EntryRow(4, 1, format(subDays(t, 2)), TRUE),
     EntryRow(5, 1, format(subDays(t, 1)), TRUE),
     EntryRow(6, 2, format(t), FALSE)}

\* the first id the store has not handed out
SeedNextId == Cardinality(SeedHabits) + Cardinality(SeedEntries(WindowDays + 1)) + 1

RECURSIVE SortByCreatedDesc(_)
SortByCreatedDesc(rows) ==
    IF rows = {} THEN <<>>
    ELSE LET r == CHOOSE r \in rows : \A q \in rows : r.created_at >= q.created_at
         IN <<r>> \o SortByCreatedDesc(rows \ {r})

InitLoaded ==
    /\ today \in TodayChoices
    /\ dbHabits = SeedHabits \cup OtherUsersHabits
    /\ dbEntries = SeedEntries(today)
    /\ habits = SortByCreatedDesc({h \in dbHabits : h.user_id = UserId /\ ~ h.is_archived})
    /\ entries = SelectEntries({h.id : h \in SeedHabits},
                               format(subDays(today, WindowDays)), format(today))
    /\ loading = FALSE
    /\ inflight = <<>>
    /\ nextId = SeedNextId
    /\ ops = 0
    /\ last = NoCall
    /\ deleted = {}
    /\ result = NoResult
    /\ errors = {}
    /\ formFrequency = "daily"
    /\ selectedDays = AllDays
    /\ editing = 0

NextToggle ==
    \/ \E h \in HabitIds, d \in Dates : ToggleStart(h, d)
    \/ \E i \in Sent("toggleEntry"), fail \in BOOLEAN : StoreToggleUpdate(i, fail)
    \/ \E i \in Sent("toggleEntry"), fail \in BOOLEAN : StoreToggleInsert(i, fail)
    \/ \E i \in Back("toggleEntry") : ToggleReceive(i)

SpecToggle == InitLoaded /\ [][NextToggle]_vars

----------------------------------------------------------------------------
(* fetchHabits and fetchEntries *)

PlainRequest(op, id, args, ids) ==
    [op |-> op, phase |-> "sent",
     habit_id |-> id, date |-> NoDate, existing |-> NoEntry,
     args |-> args, ids |-> ids,
     error |-> "none", data |-> <<>>, before |-> FALSE, follows |-> FALSE]

\* useEffect(() => { if (habits.length > 0) fetchEntries() }, [habits]):
\* the calls in flight after setHabits(hs), given those still suspended
HabitsEffect(pending, hs) ==
    IF Len(hs) > 0
    THEN Append(pending, PlainRequest("fetchEntries", 0, NoArgs, {hs[k].id : k \in DOMAIN hs}))
    ELSE pending

\* .select('*').eq('is_archived', false).order('created_at', { ascending: false })
SelectHabits ==
    SortByCreatedDesc({h \in dbHabits : h.user_id = UserId /\ ~ h.is_archived})

StoreFetchHabits(i, fail) ==
    /\ inflight' = [inflight EXCEPT ![i] =
                       IF fail THEN Returned(@, Response("network", <<>>))
                       ELSE Returned(@, Response("none", SelectHabits))]
    /\ UNCHANGED <<form, result, today, dbHabits, dbEntries, habits, entries, loading, nextId, ops,
                   last, deleted>>

\* if (!error && data) setHabits(data); .finally(() => setLoading(false))
FetchHabitsReceive(i) ==
    LET r == inflight[i] IN
    /\ habits' = IF r.error = "none" THEN r.data ELSE habits
    /\ inflight' = IF r.error = "none" THEN HabitsEffect(Without(i), r.data) ELSE Without(i)
    /\ loading' = FALSE
    /\ UNCHANGED <<form, result, today, dbHabits, dbEntries, entries, nextId, ops, last, deleted>>

StoreFetchEntries(i, fail) ==
    /\ inflight' = [inflight EXCEPT ![i] =
                       IF fail THEN Returned(@, Response("network", <<>>))
                       ELSE Returned(@, Response("none",
                                SelectEntries(@.ids, format(subDays(today, WindowDays)),
                                              format(today))))]
    /\ UNCHANGED <<form, result, today, dbHabits, dbEntries, habits, entries, loading, nextId, ops,
                   last, deleted>>

\* if (!error && data) setEntries(data)
FetchEntriesReceive(i) ==
    LET r == inflight[i] IN
    /\ entries' = IF r.error = "none" THEN r.data ELSE entries
    /\ inflight' = Without(i)
    /\ UNCHANGED <<form, result, today, dbHabits, dbEntries, habits, loading, nextId, ops, last, deleted>>

----------------------------------------------------------------------------
(* createHabit, updateHabit, deleteHabit *)

\* z.string().trim()
Whitespace == {" "}

RECURSIVE trimStart(_)
trimStart(str) ==
    IF str # <<>> /\ Head(str) \in Whitespace THEN trimStart(Tail(str)) ELSE str

RECURSIVE trimEnd(_)
trimEnd(str) ==
    IF str # <<>> /\ str[Len(str)] \in Whitespace
    THEN trimEnd(SubSeq(str, 1, Len(str) - 1))
    ELSE str

trim(str) == trimEnd(trimStart(str))

\* description: description || null
OrNull(description) == IF description = <<>> THEN Null ELSE description

\* the columns the call sends: { name, description: description || null, frequency }
PayloadTrimmed(args) ==
    [name |-> trim(args.name), description |-> OrNull(args.description),
     frequency |-> args.frequency]

Payload(args) ==
    [name |-> args.name, description |-> OrNull(args.description),
     frequency |-> args.frequency]

\* .max(100, ...) of name and .max(500, ...) of description
MaxNameLen == 100

MaxDescriptionLen == 500

\* the two generations of the form: z.enum([...]) of habitSchema
FormFrequencies(variant) ==
    IF variant = "legacy" THEN {"daily", "weekly"}
    ELSE {"daily", "weekdays", "weekends", "custom"}

\* habitSchema.parse({ name, description, frequency }): the issues of the
\* ZodError as <<path, message>>, none when the values parse
habitSchemaUntrimmed(variant, name, description, freq) ==
    (IF Len(name) < 1 THEN {<<"name", "Name is required">>} ELSE {})
    \cup (IF Len(name) > MaxNameLen
          THEN {<<"name", "Name must be less than 100 characters">>} ELSE {})
    \cup (IF Len(description) > MaxDescriptionLen
          THEN {<<"description", "Description must be less than 500 characters">>}
          ELSE {})
    \cup (IF freq \notin FormFrequencies(variant)
          THEN {<<"frequency", "Invalid enum value">>} ELSE {})

habitSchema(variant, name, description, freq) ==
    (IF Len(trim(name)) < 1 THEN {<<"name", "Name is required">>} ELSE {})
    \cup (IF Len(trim(name)) > MaxNameLen
          THEN {<<"name", "Name must be less than 100 characters">>} ELSE {})
    \cup (IF Len(description) > MaxDescriptionLen
          THEN {<<"description", "Description must be less than 500 characters">>}
          ELSE {})
    \cup (IF freq \notin FormFrequencies(variant)
          THEN {<<"frequency", "Invalid enum value">>} ELSE {})

\* validateForm: the errors it sets; only the issues of name and description
\* are copied
FormErrors(issues) == {e \in issues : e[1] \in {"name", "description"}}

\* handleSubmit of the form when creating: if (!validateForm()) return; then
\* createHabit up to its await
CreateStart(variant, name, description, freq) ==
    LET issues == habitSchema(variant, name, description, freq) IN
    /\ ops < MaxOps
    /\ issues = {} => Len(inflight) < MaxInFlight
    /\ errors' = FormErrors(issues)
    /\ inflight' =
         IF issues # {} THEN inflight
         ELSE Append(inflight,
                     PlainRequest("createHabit", 0,
                                  [name |-> name, description |-> description,
                                   frequency |-> freq], {}))
    /\ ops' = ops + 1
    /\ UNCHANGED <<formFrequency, selectedDays, editing, result, today, dbHabits,
                   dbEntries, habits, entries, loading, nextId, last, deleted>>

\* .insert({ name, description, frequency, user_id: user.id }).select().single()
StoreCreate(i, fail) ==
    /\ LET r == inflight[i]
           new == HabitRow(nextId, Payload(r.args).name, Payload(r.args).description,
                          Payload(r.args).frequency)
       IN IF fail
          THEN /\ inflight' = [inflight EXCEPT ![i] = Returned(r, Response("network", <<>>))]
               /\ UNCHANGED <<dbHabits, nextId>>
          ELSE IF r.args.frequency \notin DbFrequencies
          THEN /\ inflight' = [inflight EXCEPT ![i] = Returned(r, Response("constraint", <<>>))]
               /\ UNCHANGED <<dbHabits, nextId>>
          ELSE /\ dbHabits' = dbHabits \cup {new}
               /\ nextId' = nextId + 1
               /\ inflight' = [inflight EXCEPT ![i] = Returned(r, Response("none", <<new>>))]
    /\ UNCHANGED <<form, result, today, dbEntries, habits, entries, loading, ops, last, deleted>>

\* if (!error && data) setHabits(prev => [data, ...prev])
CreateReceive(i) ==
    LET r == inflight[i]
        hs == IF r.error = "none" THEN <<r.data[1]>> \o habits ELSE habits
    IN /\ habits' = hs
       /\ inflight' = IF r.error = "none" THEN HabitsEffect(Without(i), hs) ELSE Without(i)
       /\ result' = ResultOf(r)
       /\ UNCHANGED <<form, today, dbHabits, dbEntries, entries, loading, nextId, ops,
                      last, deleted>>

\* .eq('id', id) under the policies "Users can update / delete their own
\* habits": USING (auth.uid() = user_id)
HabitTargetsOfAnyUser(id) == {h \in dbHabits : h.id = id}

HabitTargets(id) == {h \in dbHabits : h.id = id /\ h.user_id = UserId}

\* handleSubmit of the form when editing habit id, then updateHabit up to its
\* await
UpdateStart(variant, id, name, description, freq) ==
    LET issues == habitSchema(variant, name, description, freq) IN
    /\ ops < MaxOps
    /\ issues = {} => Len(inflight) < MaxInFlight
    /\ errors' = FormErrors(issues)
    /\ inflight' =
         IF issues # {} THEN inflight
         ELSE Append(inflight,
                     PlainRequest("updateHabit", id,
                                  [name |-> name, description |-> description,
                                   frequency |-> freq], {}))
    /\ ops' = ops + 1
    /\ UNCHANGED <<formFrequency, selectedDays, editing, result, today, dbHabits,
                   dbEntries, habits, entries, loading, nextId, last, deleted>>

\* the row .update({ name, description, frequency }) leaves: the columns it
\* names are set, the others kept
UpdatedRowRestamped(row, args) ==
    [row EXCEPT !.name = Payload(args).name,
                !.description = Payload(args).description,
                !.frequency = Payload(args).frequency,
                !.created_at = nextId]

UpdatedRow(row, args) ==
    [row EXCEPT !.name = Payload(args).name,
                !.description = Payload(args).description,
                !.frequency = Payload(args).frequency]

\* .update({ name, description, frequency }).eq('id', id).select().single()
StoreUpdate(i, fail) ==
    /\ LET r == inflight[i]
           hit == HabitTargets(r.habit_id)
           row == CHOOSE h \in hit : TRUE
           new == UpdatedRow(row, r.args)
       IN IF fail
          THEN /\ inflight' = [inflight EXCEPT ![i] = Returned(r, Response("network", <<>>))]
               /\ UNCHANGED dbHabits
          ELSE IF hit = {}
          THEN /\ inflight' = [inflight EXCEPT ![i] = Returned(r, Response("norow", <<>>))]
               /\ UNCHANGED dbHabits
          ELSE IF r.args.frequency \notin DbFrequencies
          THEN /\ inflight' = [inflight EXCEPT ![i] = Returned(r, Response("constraint", <<>>))]
               /\ UNCHANGED dbHabits
          ELSE /\ dbHabits' = (dbHabits \ {row}) \cup {new}
               /\ inflight' = [inflight EXCEPT ![i] = Returned(r, Response("none", <<new>>))]
    /\ UNCHANGED <<form, result, today, dbEntries, habits, entries, loading, nextId, ops, last, deleted>>

\* prev.map(h => h.id === id ? data : h)
ReplaceHabitAtHead(prev, id, data) ==
    IF \E k \in DOMAIN prev : prev[k].id = id
    THEN <<data>> \o SelectSeq(prev, LAMBDA h : h.id # id)
    ELSE prev

ReplaceHabit(prev, id, data) ==
    [k \in DOMAIN prev |-> IF prev[k].id = id THEN data ELSE prev[k]]

\* if (!error && data) setHabits(prev => prev.map(h => h.id === id ? data : h))
UpdateReceive(i) ==
    LET r == inflight[i]
        hs == IF r.error = "none" THEN ReplaceHabit(habits, r.habit_id, r.data[1])
              ELSE habits
    IN /\ habits' = hs
       /\ inflight' = IF r.error = "none" THEN HabitsEffect(Without(i), hs) ELSE Without(i)
       /\ result' = ResultOf(r)
       /\ UNCHANGED <<form, today, dbHabits, dbEntries, entries, loading, nextId, ops,
                      last, deleted>>

DeleteStart(id) ==
    /\ ops < MaxOps
    /\ Len(inflight) < MaxInFlight
    /\ inflight' = Append(inflight, PlainRequest("deleteHabit", id, NoArgs, {}))
    /\ ops' = ops + 1
    /\ UNCHANGED <<form, result, today, dbHabits, dbEntries, habits, entries, loading, nextId,
                   last, deleted>>

\* .delete().eq('id', id); habit_entries.habit_id REFERENCES habits ON DELETE CASCADE
StoreDelete(i, fail) ==
    /\ LET r == inflight[i]
           hit == HabitTargets(r.habit_id)
       IN IF fail
          THEN /\ inflight' = [inflight EXCEPT ![i] = Returned(r, Response("network", <<>>))]
               /\ UNCHANGED <<dbHabits, dbEntries>>
          ELSE /\ dbHabits' = dbHabits \ hit
               /\ dbEntries' = {e \in dbEntries : \A h \in hit : e.habit_id # h.id}
               /\ inflight' = [inflight EXCEPT ![i] = Returned(r, Response("none", <<>>))]
    /\ UNCHANGED <<form, result, today, habits, entries, loading, nextId, ops, last, deleted>>

\* if (!error)
DeleteOkWhateverTheError(r) == TRUE

DeleteOk(r) == r.error = "none"

\* the habits left by setHabits(prev => prev.filter(h => h.id !== id))
RemoveHabitByIndex(prev, id) ==
    IF \E k \in DOMAIN prev : prev[k].id = id
    THEN SelectSeq(prev, LAMBDA h : h.id # id)
    ELSE SubSeq(prev, 1, Len(prev) - 1)

RemoveHabit(prev, id) == SelectSeq(prev, LAMBDA h : h.id # id)

\* the entries deleteHabit leaves in memory: it calls no setEntries
EntriesAfterDelete(prev, id) == prev

\* if (!error) setHabits(prev => prev.filter(h => h.id !== id))
DeleteReceive(i) ==
    LET r == inflight[i]
        hs == IF DeleteOk(r) THEN RemoveHabit(habits, r.habit_id) ELSE habits
    IN /\ habits' = hs
       /\ entries' = IF DeleteOk(r) THEN EntriesAfterDelete(entries, r.habit_id)
                     ELSE entries
       /\ inflight' = IF DeleteOk(r) THEN HabitsEffect(Without(i), hs) ELSE Without(i)
       /\ deleted' = IF DeleteOk(r) THEN deleted \cup {r.habit_id} ELSE deleted
       /\ result' = ResultOf(r)
       /\ UNCHANGED <<form, today, dbHabits, dbEntries, loading, nextId, ops, last>>

----------------------------------------------------------------------------
(* The hook from its first render: useEffect([user]) has called fetchHabits *)

\* the names and descriptions the user types: an empty name, a blank one and
\* one with a blank on each side; no description and one
Names == {<<>>, <<" ">>, <<" ", "R", " ">>}

Descriptions == {<<>>, <<"d">>}

\* the description an edit submits
EditDescriptions == {<<"d">>}

\* the ids updateHabit is called with: the route /habits/:id/edit names any id
EditIds == HabitIds \cup {h.id : h \in OtherUsersHabits}

\* a form and the frequency picked in it: the store accepts DbFrequencies
Submissions == {<<"legacy", "weekly">>, <<"schedule", "weekdays">>}

\* the same when editing: the form starts from the stored frequency
\* (setFrequency(data.frequency)), which the schedule form shows for a weekly
\* habit until a schedule button is pressed
EditSubmissions == Submissions \cup {<<"schedule", "weekly">>}

Init ==
    /\ today \in TodayChoices
    /\ dbHabits = SeedHabits \cup OtherUsersHabits
    /\ dbEntries = SeedEntries(today)
    /\ habits = <<>>
    /\ entries = <<>>
    /\ loading = TRUE
    /\ inflight = <<PlainRequest("fetchHabits", 0, NoArgs, {})>>
    /\ nextId = SeedNextId
    /\ ops = 0
    /\ last = NoCall
    /\ deleted = {}
    /\ result = NoResult
    /\ errors = {}
    /\ formFrequency = "daily"
    /\ selectedDays = AllDays
    /\ editing = 0

Next ==
    \/ \E i \in Sent("fetchHabits"), fail \in BOOLEAN : StoreFetchHabits(i, fail)
    \/ \E i \in Back("fetchHabits") : FetchHabitsReceive(i)
    \/ \E i \in Sent("fetchEntries"), fail \in BOOLEAN : StoreFetchEntries(i, fail)
    \/ \E i \in Back("fetchEntries") : FetchEntriesReceive(i)
    \/ \E n \in Names, d \in Descriptions, f \in Submissions : CreateStart(f[1], n, d, f[2])
    \/ \E i \in Sent("createHabit"), fail \in BOOLEAN : StoreCreate(i, fail)
    \/ \E i \in Back("createHabit") : CreateReceive(i)
    \/ \E id \in EditIds, n \in Names, d \in EditDescriptions, f \in EditSubmissions :
           UpdateStart(f[1], id, n, d, f[2])
    \/ \E i \in Sent("updateHabit"), fail \in BOOLEAN : StoreUpdate(i, fail)
    \/ \E i \in Back("updateHabit") : UpdateReceive(i)
    \/ \E id \in HabitIds : DeleteStart(id)
    \/ \E i \in Sent("deleteHabit"), fail \in BOOLEAN : StoreDelete(i, fail)
    \/ \E i \in Back("deleteHabit") : DeleteReceive(i)
    \/ \E h \in HabitIds, d \in Dates : ToggleStart(h, d)
    \/ \E i \in Sent("toggleEntry"), fail \in BOOLEAN : StoreToggleUpdate(i, fail)
    \/ \E i \in Sent("toggleEntry"), fail \in BOOLEAN : StoreToggleInsert(i, fail)
    \/ \E i \in Back("toggleEntry") : ToggleReceive(i)

Spec == Init /\ [][Next]_vars

----------------------------------------------------------------------------
(* A session whose habits and entries are loaded, in which the user        *)
(* creates, edits and deletes habits and toggles today's entries.          *)

NextSession ==
    \/ \E i \in Sent("fetchEntries"), fail \in BOOLEAN : StoreFetchEntries(i, fail)
    \/ \E i \in Back("fetchEntries") : FetchEntriesReceive(i)
    \/ \E n \in Names, d \in Descriptions, f \in Submissions : CreateStart(f[1], n, d, f[2])
    \/ \E i \in Sent("createHabit"), fail \in BOOLEAN : StoreCreate(i, fail)
    \/ \E i \in Back("createHabit") : CreateReceive(i)
    \/ \E id \in EditIds, n \in Names, d \in EditDescriptions, f \in EditSubmissions :
           UpdateStart(f[1], id, n, d, f[2])
    \/ \E i \in Sent("updateHabit"), fail \in BOOLEAN : StoreUpdate(i, fail)
    \/ \E i \in Back("updateHabit") : UpdateReceive(i)
    \/ \E id \in HabitIds : DeleteStart(id)
    \/ \E i \in Sent("deleteHabit"), fail \in BOOLEAN : StoreDelete(i, fail)
    \/ \E i \in Back("deleteHabit") : DeleteReceive(i)
    \/ \E h \in HabitIds : ToggleStart(h, format(today))
    \/ \E i \in Sent("toggleEntry"), fail \in BOOLEAN : StoreToggleUpdate(i, fail)
    \/ \E i \in Sent("toggleEntry"), fail \in BOOLEAN : StoreToggleInsert(i, fail)
    \/ \E i \in Back("toggleEntry") : ToggleReceive(i)

SpecSession == InitLoaded /\ [][NextSession]_vars

----------------------------------------------------------------------------
(* The schedule of the habit form: a recurrence and the days picked.  The  *)
(* array selectedDays holds weekdays, 0 = 'mon' ... 6 = 'sun'.              *)

\* DAYS
DayKeys == 0 .. 6

\* FREQUENCY_OPTIONS.map(o => o.value)
FrequencyValues == {"daily", "weekdays", "weekends", "custom"}

\* FREQUENCY_OPTIONS.slice(0, 3): the recurrences that have a button
FrequencyButtons == {"daily", "weekdays", "weekends"}

\* const option = FREQUENCY_OPTIONS.find(o => o.value === value);
\* if (option && value !== 'custom') setSelectedDays(option.days)
handleFrequencyChange(value) ==
    /\ formFrequency' = value
    /\ selectedDays' = IF value \in FrequencyValues /\ value # "custom"
                       THEN OptionDays(value)
                       ELSE selectedDays
    /\ UNCHANGED <<errors, editing, result, today, dbHabits, dbEntries, habits, entries,
                   loading, inflight, nextId, ops, last, deleted>>

\* prev.includes(day) ? prev.filter(d => d !== day) : [...prev, day]
ToggledDaysAppended(prev, day) == Append(prev, day)

ToggledDays(prev, day) ==
    IF \E k \in DOMAIN prev : prev[k] = day
    THEN SelectSeq(prev, LAMBDA d : d # day)
    ELSE Append(prev, day)

\* setFrequency('custom'); setSelectedDays(prev => ...)
toggleDay(day) ==
    /\ formFrequency' = "custom"
    /\ selectedDays' = ToggledDays(selectedDays, day)
    /\ UNCHANGED <<errors, editing, result, today, dbHabits, dbEntries, habits, entries,
                   loading, inflight, nextId, ops, last, deleted>>

\* the habit the form describes
FormHabit == [frequency |-> formFrequency, days |-> Range(selectedDays)]

\* whether the habit is due on the day: the date's weekday is among the days
\* of the habit's recurrence, for custom among the days of its own day-set
isDueOnDate(habit, date) ==
    WeekdayOf(date) \in (IF habit.frequency = "custom" THEN habit.days
                         ELSE FrequencyDays(habit.frequency))

\* the form mounted on /habits/new: the initial values of its useState calls
OpenNew ==
    /\ editing' = 0
    /\ errors' = {}
    /\ formFrequency' = "daily"
    /\ selectedDays' = AllDays
    /\ UNCHANGED <<result, today, dbHabits, dbEntries, habits, entries, loading, inflight,
                   nextId, ops, last, deleted>>

\* the form mounted on /habits/:id/edit and its fetchHabit effect:
\*   .from('habits').select('*').eq('id', id).maybeSingle()
\*   setFrequency(data.frequency);
\*   if (option && data.frequency !== 'custom') setSelectedDays(option.days)
\* (with no row the effect navigates away)
OpenForEdit(id) ==
    /\ \E data \in dbHabits :
           /\ data.id = id /\ data.user_id = UserId
           /\ formFrequency' = data.frequency
           /\ selectedDays' = IF data.frequency \in FrequencyValues /\ data.frequency # "custom"
                              THEN OptionDays(data.frequency)
                              ELSE AllDays
    /\ editing' = id
    /\ errors' = {}
    /\ UNCHANGED <<result, today, dbHabits, dbEntries, habits, entries, loading, inflight,
                   nextId, ops, last, deleted>>

\* handleSubmit of the schedule form:
\*   isEditing ? updateHabit(id, name, description, frequency)
\*             : createHabit(name, description, frequency)
handleSubmit(name, description) ==
    IF editing = 0
    THEN CreateStart("schedule", name, description, formFrequency)
    ELSE UpdateStart("schedule", editing, name, description, formFrequency)

\* disabled={loading} of the form's buttons: no submit of the form is awaiting
\* its createHabit or updateHabit
FormIdle ==
    \A i \in DOMAIN inflight : inflight[i].op \notin {"createHabit", "updateHabit"}

NextForm ==
    \/ \E value \in FrequencyButtons : handleFrequencyChange(value)
    \/ \E day \in DayKeys : toggleDay(day)
    \/ OpenNew
    \/ \E id \in HabitIds : OpenForEdit(id)

SpecForm == InitLoaded /\ [][NextForm]_vars

----------------------------------------------------------------------------
(* The schedule form with its submit: the recurrence picked, some days     *)
(* toggled, and the createHabit or updateHabit call of handleSubmit.       *)

\* the days toggled before a submit: Monday and Saturday
SubmitDays == {0, 5}

NextSubmit ==
    \/ FormIdle /\ \E value \in FrequencyButtons : handleFrequencyChange(value)
    \/ FormIdle /\ \E day \in SubmitDays : toggleDay(day)
    \/ FormIdle /\ OpenNew
    \/ FormIdle /\ \E id \in HabitIds : OpenForEdit(id)
    \/ FormIdle /\ \E n \in Names, d \in EditDescriptions : handleSubmit(n, d)
    \/ \E i \in Sent("createHabit"), fail \in BOOLEAN : StoreCreate(i, fail)
    \/ \E i \in Back("createHabit") : CreateReceive(i)
    \/ \E i \in Sent("updateHabit"), fail \in BOOLEAN : StoreUpdate(i, fail)
    \/ \E i \in Back("updateHabit") : UpdateReceive(i)
    \/ \E i \in Sent("fetchEntries"), fail \in BOOLEAN : StoreFetchEntries(i, fail)
    \/ \E i \in Back("fetchEntries") : FetchEntriesReceive(i)

SpecSubmit == InitLoaded /\ [][NextSubmit]_vars

----------------------------------------------------------------------------
(* Properties of toggleEntry, checked under SpecToggle *)

\* the indexes of the entries of (habitId, date) in a collection
KeyIndexes(es, habitId, date) ==
    {i \in DOMAIN es : es[i].habit_id = habitId /\ es[i].date = date}

KeyRows(habitId, date) == {e \in dbEntries : e.habit_id = habitId /\ e.date = date}

\* this step is call i of toggleEntry resuming after its await
ToggleReturns(i) ==
    /\ inflight[i].op = "toggleEntry"
    /\ inflight[i].phase = "returned"
    /\ Len(inflight') = Len(inflight) - 1
    /\ \A j \in DOMAIN inflight' :
           [inflight'[j] EXCEPT !.follows = FALSE] = [Without(i)[j] EXCEPT !.follows = FALSE]

\* C1: after any sequence of toggleEntry calls, overlapping or not, at most one
\* entry of a pair (habit, date) is in the in-memory collection and at most one
\* row of the pair is in the store.
C1_AtMostOneEntryPerKey ==
    \A h \in HabitIds, d \in Dates :
        /\ Cardinality(KeyIndexes(entries, h, d)) <= 1
        /\ Cardinality(KeyRows(h, d)) <= 1

\* two overlapping toggles of one pair both chose insert; the store refused the
\* second and the pair has its one entry
C1_Witness ==
    /\ last.kind = "insert" /\ last.error = "constraint"
    /\ Cardinality(KeyIndexes(entries, last.habit_id, last.date)) = 1
    /\ Cardinality(KeyRows(last.habit_id, last.date)) = 1

\* C2: two successful toggleEntry calls of one pair, the second issued right
\* after the first returned, bring isCompletedOnDate of the pair back to the
\* value it had before the first call.
C2_TwiceRestores == last.second => last.after = last.orig

\* the pair had a completed entry before the first of the two calls
C2_Witness == last.second /\ last.orig = TRUE /\ last.kind = "update"

\* the pair had no entry before the first of the two calls
C2_WitnessNoEntry ==
    /\ last.second /\ last.orig = FALSE
    /\ \E i \in DOMAIN entries :
           /\ entries[i].habit_id = last.habit_id /\ entries[i].date = last.date
           /\ entries[i].id >= SeedNextId

\* the pair had an entry marked not done before the first of the two calls
C2_WitnessNotDone ==
    /\ last.second /\ last.orig = FALSE
    /\ \E i \in DOMAIN entries :
           /\ entries[i].habit_id = last.habit_id /\ entries[i].date = last.date
           /\ entries[i].id = 6

C4_NeverDeletes ==
    [][\A h \in HabitIds :
           /\ \A d \in Dates :
                  /\ KeyIndexes(entries, h, d) # {} => KeyIndexes(entries', h, d) # {}
                  /\ KeyRows(h, d) # {} => KeyRows(h, d)' # {}
           /\ Len(SelectSeq(entries', LAMBDA e : e.habit_id = h))
                  >= Len(getEntriesForHabit(h))]_vars

\* an entry flipped to not done is still there, as the explicit marker
C4_Witness ==
    /\ last.kind = "update" /\ last.error = "none" /\ last.after = FALSE
    /\ \E i \in DOMAIN entries :
           /\ entries[i].habit_id = last.habit_id /\ entries[i].date = last.date
           /\ ~ entries[i].completed
    /\ \E e \in KeyRows(last.habit_id, last.date) : ~ e.completed

\* C5: when a toggleEntry call returns without error, the in-memory entry of the
\* pair is the row the store returned: it replaces the entry the memory holds,
\* or is appended when the memory holds none, and no other entry changes.
C5_MirrorsReturnedRow ==
    [][\A i \in DOMAIN inflight :
           (ToggleReturns(i) /\ inflight[i].error = "none") =>
               LET r == inflight[i]
                   held == KeyIndexes(entries, r.habit_id, r.date)
               IN /\ FindEntry(entries', r.habit_id, r.date) = r.data[1]
                  /\ held # {} =>
                         /\ Len(entries') = Len(entries)
                         /\ \A j \in DOMAIN entries :
                                entries'[j] = IF j \in held THEN r.data[1] ELSE entries[j]
                  /\ held = {} => entries' = Append(entries, r.data[1])]_vars

\* a returned row was appended behind an entry the memory already held
C5_Witness ==
    /\ last.kind = "insert" /\ last.error = "none"
    /\ Len(entries) >= 2
    /\ entries[Len(entries)].habit_id = last.habit_id
    /\ entries[Len(entries)].date = last.date
    /\ entries[Len(entries)] \in dbEntries

\* a returned row replaced the entry the memory held, others staying
C5_WitnessReplaced ==
    /\ last.kind = "update" /\ last.error = "none"
    /\ Len(entries) >= 2
    /\ FindEntry(entries, last.habit_id, last.date).completed = last.after

----------------------------------------------------------------------------
(* Properties of the queries, checked under SpecToggle *)

\* the dates on which the memory holds a completed entry of the habit
Done(habitId) ==
    {e.date : e \in {x \in Range(entries) : x.habit_id = habitId /\ x.completed}}

\* the dates a page can ask about
AskedDates == Dates \cup {format(subDays(today, NumDays))}

\* C6: isCompletedOnDate(habit, date) is true exactly when the memory holds an
\* entry of the pair with completed = true; an entry marked not done answers as
\* no entry does, and habits of different frequency with the same entries get
\* the same answer.
C6_LookupIsCompletedEntry ==
    /\ \A h \in HabitIds, d \in AskedDates : isCompletedOnDate(h, d) <=> d \in Done(h)
    /\ \A i \in DOMAIN entries :
           ~ entries[i].completed /\ Cardinality(KeyIndexes(entries, entries[i].habit_id,
                                                             entries[i].date)) = 1
               => ~ isCompletedOnDate(entries[i].habit_id, entries[i].date)
    /\ \A h1, h2 \in HabitIds, d \in AskedDates :
           (d \in Done(h1) <=> d \in Done(h2)) =>
               (isCompletedOnDate(h1, d) <=> isCompletedOnDate(h2, d))

\* today the daily habit has a completed entry and the weekly habit an entry
\* marked not done; yesterday the weekly habit has no entry
C6_Witness ==
    /\ FindEntry(entries, 1, format(today)).completed
    /\ isCompletedOnDate(1, format(today))
    /\ FindEntry(entries, 2, format(today)) # NoEntry
    /\ ~ FindEntry(entries, 2, format(today)).completed
    /\ ~ isCompletedOnDate(2, format(today))
    /\ FindEntry(entries, 2, format(subDays(today, 1))) = NoEntry
    /\ ~ isCompletedOnDate(2, format(subDays(today, 1)))

\* C7: getStreak(habit) is the number k of consecutive calendar days today,
\* today-1, ..., today-(k-1) that are all completed, with today-k not completed:
\* 0 when today is not completed, 3 for completions on today, today-1, today-2
\* with no entry on today-3.
C7_StreakIsConsecutiveRun ==
    \A h \in HabitIds :
        LET k == getStreak(h) IN
        /\ k \in Nat
        /\ \A i \in 0 .. k - 1 : format(subDays(today, i)) \in Done(h)
        /\ format(subDays(today, k)) \notin Done(h)
        /\ format(today) \notin Done(h) => k = 0
        /\ ( /\ \A i \in 0 .. 2 : format(subDays(today, i)) \in Done(h)
             /\ FindEntry(entries, h, format(subDays(today, 3))) = NoEntry ) => k = 3

\* completions on today, today-1 and today-2, across the end of February
C7_Witness ==
    \E h \in HabitIds :
        /\ getStreak(h) = 3
        /\ Done(h) = {format(today), format(subDays(today, 1)), format(subDays(today, 2))}
        /\ format(subDays(today, 2))[2] # format(today)[2]

\* the streak is 0 with yesterday completed and today not
C7_WitnessZero ==
    \E h \in HabitIds :
        /\ getStreak(h) = 0
        /\ format(subDays(today, 1)) \in Done(h)

\* C8: the streak counts calendar days and ignores the frequency: the first day
\* without a completed entry ends it, whatever weekday it is, and two habits
\* with the same completed dates have the same streak.
C8_StreakIgnoresFrequency ==
    \A h1, h2 \in HabitIds :
        /\ format(subDays(today, getStreak(h1))) \notin Done(h1)
        /\ Done(h1) = Done(h2) => getStreak(h1) = getStreak(h2)

\* the daily and the weekly habit are both completed on Thursday and Friday and
\* not on Saturday, today: both have streak 0
C8_Witness ==
    /\ WeekdayOf(today) = 5
    /\ \E i, j \in DOMAIN habits : habits[i].frequency # habits[j].frequency
    /\ \A h \in HabitIds :
           /\ {d \in Done(h) : DateLE(format(subDays(today, WindowDays)), d)}
                  = {format(subDays(today, 1)), format(subDays(today, 2))}
           /\ getStreak(h) = 0
    /\ Cardinality(HabitIds) = 2

----------------------------------------------------------------------------
(* Properties of deleteHabit, checked under Spec *)

\* C9: after a successful deleteHabit(id) the habit is absent from the habit
\* list and isCompletedOnDate(id, d) is false for every date d.
C9_DeletedHabitUnreachable ==
    \A id \in deleted :
        /\ id \notin HabitIds
        /\ \A d \in AskedDates : ~ isCompletedOnDate(id, d)

\* C10: every entry in memory belongs to a habit in memory.
C10_EntriesHaveHabit ==
    \A i \in DOMAIN entries : entries[i].habit_id \in HabitIds

----------------------------------------------------------------------------
(* Properties of the failure of a store call, checked under SpecSession *)

\* this step is call i resuming after its await: it leaves the calls in flight,
\* and the [habits] effect may have sent a fetchEntries behind the others
Resumes(i) ==
    /\ inflight[i].phase = "returned"
    /\ Len(inflight') \in {Len(inflight) - 1, Len(inflight)}
    /\ \A j \in 1 .. Len(inflight) - 1 :
           [inflight'[j] EXCEPT !.follows = FALSE] = [Without(i)[j] EXCEPT !.follows = FALSE]
    /\ Len(inflight') = Len(inflight) =>
           /\ inflight'[Len(inflight)].op = "fetchEntries"
           /\ inflight'[Len(inflight)].phase = "sent"

\* C11: a createHabit, updateHabit, deleteHabit or toggleEntry call whose store
\* request failed leaves the in-memory habits and entries as they were: they
\* change neither when the call is issued, nor when the store answers, nor when
\* the call resumes with the error.
C11_FailureLeavesMemory ==
    [][/\ \A i \in DOMAIN inflight :
              (Resumes(i) /\ inflight[i].op \in StoreBacked /\ inflight[i].error # "none")
                  => (habits' = habits /\ entries' = entries)
       /\ (~ \E i \in DOMAIN inflight : Resumes(i))
              => (habits' = habits /\ entries' = entries)]_vars

\* a deleteHabit call has returned false and both habits and their entries are
\* still in memory
C11_Witness ==
    /\ result.op = "deleteHabit" /\ result.error = "network"
    /\ Len(habits) = Cardinality(SeedHabits)
    /\ entries # <<>>

\* the same for a failed toggleEntry, createHabit and updateHabit
C11_WitnessOthers ==
    /\ result.op \in {"toggleEntry", "createHabit", "updateHabit"}
    /\ result.error # "none"
    /\ Len(habits) = Cardinality(SeedHabits)

\* the outcomes of the calls that have their response: those about to resume
\* and the one that resumed last
\* (0 stands for the call that resumed last)
Outcomes == {0} \cup {j \in DOMAIN inflight : inflight[j].phase = "returned"}

OutcomeOf(i) == IF i = 0 THEN result ELSE ResultOf(inflight[i])

\* C12: a store-backed call whose store request failed hands its caller an
\* outcome that differs from the outcome of a successful call of the same
\* operation, and sends no second request.
C12_FailureSurfaced ==
    /\ [](\A b, g \in Outcomes :
              LET bad == OutcomeOf(b)
                  good == OutcomeOf(g)
              IN ( /\ bad.op \in StoreBacked /\ good.op = bad.op
                   /\ bad.error # "none" /\ good.error = "none" )
                     => bad.value # good.value)
    /\ [][\A i \in DOMAIN inflight :
              (Resumes(i) /\ inflight[i].op \in StoreBacked /\ inflight[i].error # "none")
                  => Len(inflight') = Len(inflight) - 1]_vars

----------------------------------------------------------------------------
(* Properties of createHabit, checked under SpecSession *)

\* the in-memory habits with the id
Lookup(id) == {h \in Range(habits) : h.id = id}

\* the createHabit call that returned last succeeded
Created == result.op = "createHabit" /\ result.error = "none"

\* C13 as claimed: after a successful createHabit(name, description,
\* frequency) the in-memory habit with the returned id has exactly the name,
\* the description and the frequency passed in.
C13_CreateRoundTripExact ==
    Created =>
        /\ Lookup(result.value[1].id) # {}
        /\ \A h \in Lookup(result.value[1].id) :
               /\ h.name = result.args.name
               /\ h.description = result.args.description
               /\ h.frequency = result.args.frequency

\* C13 as amended: after a successful createHabit(name, description,
\* frequency) the in-memory habit with the returned id has exactly the name
\* (surrounding white space included) and the frequency passed in, and the
\* description passed in, except that an empty description comes back as null.
C13_CreateRoundTrip ==
    Created =>
        /\ Lookup(result.value[1].id) # {}
        /\ \A h \in Lookup(result.value[1].id) :
               /\ h.name = result.args.name
               /\ result.args.description # <<>> => h.description = result.args.description
               /\ result.args.description = <<>> => h.description = Null
               /\ h.frequency = result.args.frequency

\* a habit was created from a name typed with a blank on each side and an
\* empty description
C13_Witness ==
    /\ Created
    /\ result.args.description = <<>>
    /\ \E h \in Lookup(result.value[1].id) :
           /\ h.name = <<" ", "R", " ">> /\ trim(h.name) # h.name
           /\ h.description = Null
           /\ h.id >= SeedNextId

\* a habit was created with a description
C13_WitnessDescription ==
    /\ Created
    /\ \E h \in Lookup(result.value[1].id) : h.description = <<"d">>

\* the names that are empty once trimmed
BlankNames == {n \in Names : trim(n) = <<>>}

\* C14: submitting the form to create a habit with an empty or blank name
\* reports a validation error on the name field, sends no request to the store
\* and leaves the in-memory habits (and the store's) unchanged.
C14_BlankNameRejected ==
    [][\A n \in BlankNames, d \in Descriptions, f \in Submissions :
           CreateStart(f[1], n, d, f[2]) =>
               /\ \E e \in errors' : e[1] = "name"
               /\ inflight' = inflight
               /\ habits' = habits
               /\ dbHabits' = dbHabits]_vars

\* a blank name was submitted: the name error is shown, no call is in flight
\* and the habits are those loaded
C14_Witness ==
    /\ errors = {<<"name", "Name is required">>}
    /\ inflight = <<>>
    /\ ops > 0
    /\ Range(habits) = SeedHabits /\ dbHabits = SeedHabits \cup OtherUsersHabits
    /\ Cardinality(BlankNames) = 2

----------------------------------------------------------------------------
(* Properties of the habit collection, checked under Spec *)

\* C15: the in-memory habits are always in descending order of creation time,
\* after any sequence of loads, creates (overlapping ones included), updates
\* and deletes.
C15_OrderedByCreation ==
    \A i, j \in DOMAIN habits : i < j => habits[i].created_at >= habits[j].created_at

\* C16: when a successful updateHabit(id, ...) resumes, the sequence of habit
\* ids is the same before and after, the record of id is the row the store
\* returned, and every other habit is unchanged.
C16_UpdateInPlace ==
    [][\A i \in DOMAIN inflight :
           (Resumes(i) /\ inflight[i].op = "updateHabit" /\ inflight[i].error = "none") =>
               /\ Len(habits') = Len(habits)
               /\ \A k \in DOMAIN habits :
                      /\ habits'[k].id = habits[k].id
                      /\ habits[k].id # inflight[i].habit_id => habits'[k] = habits[k]
                      /\ habits[k].id = inflight[i].habit_id =>
                             habits'[k] = inflight[i].data[1]]_vars

\* the habit in second place was updated: it is still in second place, with
\* the new name, behind the habit that was and is first
C16_Witness ==
    /\ result.op = "updateHabit" /\ result.error = "none"
    /\ Len(habits) = 2
    /\ habits[2].id = result.id
    /\ habits[2] = result.value[1]
    /\ habits[2] \notin SeedHabits
    /\ habits[1] \in SeedHabits

\* this step is the store serving the request of call i
Served(i) ==
    /\ inflight[i].phase = "sent"
    /\ Len(inflight') = Len(inflight)
    /\ inflight'[i].phase = "returned"
    /\ \A j \in DOMAIN inflight : j # i => inflight'[j] = inflight[j]

\* the id names a habit of the signed-in user in the store
Resolves(id) == \E h \in dbHabits : h.id = id /\ h.user_id = UserId

\* C17: updateHabit(id, ...) with an id that names no habit of the caller in
\* the store fails: the store changes no row and answers with its no-row error
\* (or the request fails on the way), the call returns null, and the in-memory
\* habits are the same before and after: no record added, none changed.
C17_UpdateNotFound ==
    [][\A i \in DOMAIN inflight :
           /\ (Served(i) /\ inflight[i].op = "updateHabit" /\ ~ Resolves(inflight[i].habit_id))
                  => /\ inflight'[i].error \in {"norow", "network"}
                     /\ ReturnValue(inflight'[i]) = <<>>
                     /\ dbHabits' = dbHabits
           /\ (Resumes(i) /\ inflight[i].op = "updateHabit" /\ inflight[i].error = "norow")
                  => habits' = habits]_vars

\* updateHabit returned null for the habit of another user, which is as it was
C17_Witness ==
    /\ result.op = "updateHabit" /\ result.error = "norow" /\ result.value = <<>>
    /\ result.id \in {h.id : h \in OtherUsersHabits}
    /\ OtherUsersHabits \subseteq dbHabits
    /\ Range(habits) = SeedHabits

\* updateHabit returned null for a habit that a deleteHabit had removed from
\* the store while it was still in memory
C17_WitnessGone ==
    /\ result.op = "updateHabit" /\ result.error = "norow" /\ result.value = <<>>
    /\ result.id \in {h.id : h \in SeedHabits}
    /\ ~ Resolves(result.id)

\* C18: deleting an id that is already absent is not an error, and leaves the
\* state as the first delete left it: the store, asked to delete a habit it
\* does not hold, changes nothing and reports no error of its own, and a
\* deleteHabit(id) that resumes when the memory no longer holds id returns true
\* and leaves the in-memory habits and entries as they are.
C18_DeleteIdempotent ==
    [][\A i \in DOMAIN inflight :
           /\ (Served(i) /\ inflight[i].op = "deleteHabit" /\ ~ Resolves(inflight[i].habit_id))
                  => /\ inflight'[i].error \in {"none", "network"}
                     /\ dbHabits' = dbHabits /\ dbEntries' = dbEntries
           /\ ( /\ Resumes(i) /\ inflight[i].op = "deleteHabit"
                /\ inflight[i].error = "none" /\ inflight[i].habit_id \notin HabitIds )
                  => /\ ReturnValue(inflight[i]) = <<TRUE>>
                     /\ habits' = habits /\ entries' = entries]_vars

\* a second deleteHabit of an id returned true when the first had removed the
\* habit from the store and from memory; the other habit is still there
C18_Witness ==
    /\ result.op = "deleteHabit" /\ result.error = "none" /\ result.value = <<TRUE>>
    /\ ~ result.held
    /\ result.id \in deleted
    /\ ~ Resolves(result.id)
    /\ Len(habits) = 1

----------------------------------------------------------------------------
(* Properties of the recurrence, checked under SpecForm *)

\* the days of the week before today and of the week from today
DueDates == subDays(today, 7) .. today + 6

C19_WitnessCustom ==
    /\ formFrequency = "custom" /\ selectedDays = <<5>>
    /\ isDueOnDate(FormHabit, today)
    /\ ~ isDueOnDate(FormHabit, subDays(today, 1))

C19_WitnessEmpty ==
    /\ formFrequency = "custom" /\ selectedDays = <<>>
    /\ \A date \in DueDates : ~ isDueOnDate(FormHabit, date)

----------------------------------------------------------------------------
(* Properties of the loaded window, checked under SpecToggle *)

\* the date lies in the window fetchEntries loads: today - 30 days up to today
InWindow(date) ==
    DateLE(format(subDays(today, WindowDays)), date) /\ DateLE(date, format(today))

\* C20: an entry whose date lies outside the loaded window is treated as absent
\* by isCompletedOnDate and getStreak, also when a toggle added it to memory,
\* so getStreak never exceeds the number of days of the window.
C20_OutsideWindowAbsent ==
    \A h \in HabitIds :
        /\ \A d \in AskedDates : ~ InWindow(d) => ~ isCompletedOnDate(h, d)
        /\ getStreak(h) <= WindowDays + 1

----------------------------------------------------------------------------
(* Termination of getStreak, checked under SpecSession *)

\* the habit ids getStreak can be asked about: those listed and those of the
\* entries held
StreakIds == HabitIds \cup {entries[i].habit_id : i \in DOMAIN entries}

\* C21: getStreak always terminates: for every habit id and every content of
\* the in-memory entries, duplicated entries of one date included, the backward
\* walk reaches its break after at most as many steps as entries are loaded for
\* the habit (one more test of the condition ends it).
C21_StreakTerminates ==
    \A h \in StreakIds :
        LET walk == StreakLoop(h, today, 0, Len(entries) + 1)
        IN /\ walk.stopped
           /\ walk.streak = getStreak(h)
           /\ walk.streak <= Len(getEntriesForHabit(h))

\* today's entry of habit 1 is held twice (a load overlapped its toggle) and
\* the walk goes back three days
C21_Witness ==
    /\ Cardinality({i \in DOMAIN entries :
                       /\ entries[i].habit_id = 1 /\ entries[i].date = format(today)
                       /\ entries[i].completed}) = 2
    /\ StreakLoop(1, today, 0, Len(entries) + 1) = [streak |-> 3, stopped |-> TRUE]

----------------------------------------------------------------------------
(* Overlapping toggles, checked under SpecToggle *)

\* call j of toggleEntry, about to resume with an updated row, overlapped the
\* toggle of the same entry that returned last: its snapshot shows the flag
\* from before that call flipped it.  (Only a returning toggle writes the
\* entries here, so a call issued after the last return would have seen the
\* flipped flag.)
OverlappedLast(j) ==
    LET r == inflight[j]
    IN /\ r.op = "toggleEntry" /\ r.phase = "returned" /\ r.error = "none"
       /\ r.existing # NoEntry
       /\ last.kind = "update" /\ last.error = "none"
       /\ last.habit_id = r.habit_id /\ last.date = r.date
       /\ last.after # last.before
       /\ r.existing.completed = last.before

\* the two overlapping calls are the only ones of the pair: no further
\* toggleEntry of it is in flight beside call j
NoOtherToggleOfPair(j) ==
    \A k \in DOMAIN inflight \ {j} :
        ~ (/\ inflight[k].op = "toggleEntry"
           /\ inflight[k].habit_id = inflight[j].habit_id
           /\ inflight[k].date = inflight[j].date)

\* C22: one toggle in flight per (habit, date) is not enforced: a second
\* toggleEntry of the pair can start while the first is suspended, whatever is
\* in flight; it picks update or insert from its own snapshot of the entries;
\* and when the pair has an entry, two overlapping toggles leave the flag
\* negated once, not back at the value it had, in the memory and, when no
\* third toggle of the pair is in flight, in the store.
C22_OverlapNegatesOnce ==
    /\ [](ops < MaxOps /\ Len(inflight) < MaxInFlight =>
              \A h \in HabitIds, d \in Dates : ENABLED ToggleStart(h, d))
    /\ [][\A j \in DOMAIN inflight :
               (ToggleReturns(j) /\ OverlappedLast(j)) =>
                   LET r == inflight[j]
                       e == FindEntry(entries', r.habit_id, r.date)
                   IN /\ e.id = r.existing.id
                      /\ e.completed = ~ last.before
                      /\ NoOtherToggleOfPair(j) => e \in dbEntries]_vars

\* the second of two overlapping toggles of an entry is about to resume: both
\* requests updated the row to the negation of the flag either had seen
C22_Witness ==
    \E j \in DOMAIN inflight :
        /\ OverlappedLast(j)
        /\ inflight[j].data[1].completed = ~ last.before
        /\ FindEntry(entries, last.habit_id, last.date).completed = ~ last.before

\* two toggles of one pair are suspended with the same snapshot
C22_WitnessBothInFlight ==
    \E i, j \in Sent("toggleEntry") :
        /\ i < j
        /\ inflight[i].habit_id = inflight[j].habit_id
        /\ inflight[i].date = inflight[j].date
        /\ inflight[i].existing = inflight[j].existing
        /\ inflight[i].existing # NoEntry

\* toggleEntry run alone on the entries es: the entry of the pair flipped, or a
\* completed one added
ToggledAlone(es, habitId, date) ==
    IF SomeEntryAnyFlag(es, habitId, date)
    THEN [k \in DOMAIN es |->
             IF es[k].habit_id = habitId /\ es[k].date = date
             THEN [es[k] EXCEPT !.completed = ~ es[k].completed]
             ELSE es[k]]
    ELSE Append(es, EntryRow(0, habitId, date, TRUE))

\* the entries of a collection, ids and order left aside
Marks(es) == {<<es[k].habit_id, es[k].date, es[k].completed>> : k \in DOMAIN es}

\* C23: toggles of different habits never contend.  A toggleEntry whose pair
\* the memory still holds as the call found it has, when it returns, the effect
\* of the call run alone on the entries then held, whatever calls of other
\* pairs were answered meanwhile and in whatever order: it is refused only for
\* a row of its own pair, and the entries of every other habit stay.  Run alone
\* one after the other, two toggles of different habits give the same entries
\* in either order.
C23_HabitsDoNotContend ==
    /\ [](\A h1, h2 \in HabitIds, d1, d2 \in Dates :
              h1 # h2 =>
                  Marks(ToggledAlone(ToggledAlone(entries, h1, d1), h2, d2))
                      = Marks(ToggledAlone(ToggledAlone(entries, h2, d2), h1, d1)))
    /\ [][\A i \in DOMAIN inflight :
               LET r == inflight[i]
               IN (/\ ToggleReturns(i)
                   /\ r.error # "network"
                   /\ FindEntry(entries, r.habit_id, r.date) = r.existing) =>
                      /\ r.error \in {"none", "constraint"}
                      /\ r.error = "constraint" =>
                             r.existing = NoEntry /\ KeyRows(r.habit_id, r.date) # {}
                      /\ r.error = "none" =>
                             Marks(entries') = Marks(ToggledAlone(entries, r.habit_id, r.date))
                      /\ \A k \in DOMAIN entries :
                             entries[k].habit_id # r.habit_id => entries'[k] = entries[k]]_vars

\* two toggles of different habits overlapped and the response of the one
\* served second arrived first: its row is in the entries, and the call served
\* first is about to resume with its own
C23_Witness ==
    \E j \in Back("toggleEntry") :
        LET r == inflight[j]
        IN /\ r.error = "none" /\ r.existing = NoEntry
           /\ last.kind = "insert" /\ last.error = "none"
           /\ last.habit_id # r.habit_id
           /\ FindEntry(entries, last.habit_id, last.date).id > r.data[1].id
           /\ FindEntry(entries, r.habit_id, r.date) = NoEntry

\* both have returned: the memory holds the rows of both, the one served
\* second in front
C23_WitnessBoth ==
    /\ inflight = <<>>
    /\ last.kind = "insert" /\ last.error = "none"
    /\ \E k \in DOMAIN entries :
           /\ entries[k].habit_id # last.habit_id
           /\ entries[k].id > FindEntry(entries, last.habit_id, last.date).id
           /\ k < CHOOSE m \in DOMAIN entries :
                      entries[m] = FindEntry(entries, last.habit_id, last.date)

----------------------------------------------------------------------------
(* Properties of the form's validation, checked under SpecSession *)

\* this step is a submit the form refused: handleSubmit returned at
\* `if (!validateForm()) return`, no call was made
SubmitRefused == ops' = ops + 1 /\ inflight' = inflight

\* C24: whenever the form refuses to create or update a habit because an input
\* violates a constraint, a frequency that is no schedule kind of the form in
\* use included, an error is set on at least one field: no submit is blocked
\* with an empty error set.
C24_RefusalNamesField == [][SubmitRefused => errors' # {}]_vars

----------------------------------------------------------------------------
(* Identity of a habit, checked under SpecSession *)

\* the two records agree in every column but name, description and frequency
SameIdentity(g, h) ==
    /\ g.id = h.id /\ g.user_id = h.user_id /\ g.created_at = h.created_at
    /\ g.is_archived = h.is_archived

\* C25: the id, the owner and the creation time of a habit never change once
\* it is created: in every step the record of an id, in memory and in the
\* store, keeps its user_id and created_at, so that after any updateHabit
\* calls they are those of the record createHabit returned; and the row an
\* updateHabit returns differs from the stored one in name, description and
\* frequency only.
C25_IdentityImmutable ==
    [][/\ \A h \in Range(habits), g \in Range(habits') : g.id = h.id => SameIdentity(g, h)
       /\ \A h \in dbHabits, g \in dbHabits' : g.id = h.id => SameIdentity(g, h)
       /\ \A i \in DOMAIN inflight :
              (Served(i) /\ inflight[i].op = "updateHabit" /\ inflight'[i].error = "none") =>
                  \E h \in dbHabits :
                      /\ h.id = inflight[i].habit_id
                      /\ SameIdentity(inflight'[i].data[1], h)]_vars

\* a habit created in this session was then updated: the record in memory is
\* the row updateHabit returned, with the id, the owner and the creation time
\* (the store's clock at the insert) createHabit gave it
C25_Witness ==
    /\ result.op = "updateHabit" /\ result.error = "none"
    /\ result.id >= SeedNextId
    /\ Lookup(result.id) = {result.value[1]}
    /\ \A h \in Lookup(result.id) :
           /\ h.created_at = result.id /\ h.user_id = UserId
           /\ h.description = <<"d">>

----------------------------------------------------------------------------
(* Properties of the entry load, checked under SpecSession *)

\* the store's entries of the habits listed in memory, from today minus the
\* window to today
WindowEntries(hs) ==
    {e \in dbEntries :
        /\ e.habit_id \in {hs[k].id : k \in DOMAIN hs}
        /\ \E h \in dbHabits : h.id = e.habit_id /\ h.user_id = UserId /\ ~ h.is_archived
        /\ DateLE(format(subDays(today, WindowDays)), e.date)
        /\ DateLE(e.date, format(today))}

\* no toggleEntry has been issued so far
NoToggleYet ==
    /\ last = NoCall
    /\ \A j \in DOMAIN inflight : inflight[j].op # "toggleEntry"

\* C26: when a fetchEntries call resumes with the store's answer, no toggle in
\* flight (none issued at all, and no other call suspended), the in-memory
\* entries are exactly the store's entries of the listed habits whose date lies
\* between today minus the window and today; when it resumes with an error the
\* entries stay as they were.
C26_LoadMirrorsStore ==
    [][\A i \in DOMAIN inflight :
           (Resumes(i) /\ inflight[i].op = "fetchEntries") =>
               /\ inflight[i].error # "none" => entries' = entries
               /\ ( /\ inflight[i].error = "none"
                    /\ NoToggleYet
                    /\ inflight' = <<>> )
                      => /\ Range(entries') = WindowEntries(habits')
                         /\ Len(entries') = Cardinality(WindowEntries(habits'))]_vars

----------------------------------------------------------------------------
(* Properties of the schedule form's submit, checked under SpecSubmit *)

\* this step is a submit of the form that called createHabit or updateHabit
SubmitCalls ==
    /\ ops' = ops + 1
    /\ Len(inflight') = Len(inflight) + 1
    /\ inflight'[Len(inflight')].op \in {"createHabit", "updateHabit"}

\* C27: a habit saved with custom recurrence keeps its day-set: the weekdays
\* selected in the form when createHabit or updateHabit is submitted are the
\* day-set the call sends to be stored with the habit, the store saves the
\* habit, and the form opened on a custom habit shows the stored day-set.
C27_CustomDaysKept ==
    [][/\ (SubmitCalls /\ formFrequency = "custom") =>
              LET sent == Payload(inflight'[Len(inflight')].args)
              IN /\ "days" \in DOMAIN sent
                 /\ sent.days = selectedDays
       /\ \A i \in DOMAIN inflight :
              ( /\ Served(i) /\ inflight[i].op \in {"createHabit", "updateHabit"}
                /\ inflight[i].args.frequency = "custom"
                /\ inflight'[i].error \notin {"network", "norow"} )
                  => inflight'[i].error = "none"
       /\ \A id \in HabitIds :
              (OpenForEdit(id) /\ formFrequency' = "custom") =>
                  \E h \in dbHabits :
                      /\ h.id = id /\ "days" \in DOMAIN h
                      /\ selectedDays' = h.days]_vars

----------------------------------------------------------------------------
(* Memory and store at a toggle, checked under SpecToggle *)

\* this step is a toggleEntry call of the pair issued while no other toggle of
\* the pair is suspended
ToggleIssuedAlone(habitId, date) ==
    /\ ops' = ops + 1
    /\ inflight' = Append(inflight, inflight'[Len(inflight')])
    /\ inflight'[Len(inflight')].op = "toggleEntry"
    /\ inflight'[Len(inflight')].habit_id = habitId
    /\ inflight'[Len(inflight')].date = date
    /\ \A j \in DOMAIN inflight :
           ~ (/\ inflight[j].op = "toggleEntry"
              /\ inflight[j].habit_id = habitId /\ inflight[j].date = date)

\* C28: toggleEntry keeps the memory consistent with the store: a call issued
\* while no other toggle of its pair is suspended chooses the insert exactly
\* when the store holds no row of the pair and the update of the row the store
\* holds otherwise, also for a date older than the loaded window, so that the
\* store accepts the request and the toggle changes isCompletedOnDate.
C28_BranchMatchesStore ==
    [][\A h \in HabitIds, d \in Dates :
           ToggleIssuedAlone(h, d) =>
               LET r == inflight'[Len(inflight')]
               IN /\ r.existing = NoEntry <=> KeyRows(h, d) = {}
                  /\ r.existing # NoEntry => r.existing \in KeyRows(h, d)]_vars

----------------------------------------------------------------------------
(* An entry load overlapping a toggle, checked under SpecSession *)

\* C29: an entry load that overlaps a toggleEntry neither loses nor duplicates
\* the toggled entry: once every call has returned, the toggle that returned
\* last having succeeded and no habit having been deleted, the memory holds
\* exactly one entry of the toggled pair, with the completed value the store
\* holds.
C29_LoadKeepsToggledEntry ==
    (inflight = <<>> /\ last.kind # "none" /\ last.error = "none" /\ deleted = {}) =>
        /\ Cardinality(KeyIndexes(entries, last.habit_id, last.date)) = 1
        /\ \A e \in KeyRows(last.habit_id, last.date) :
               FindEntry(entries, last.habit_id, last.date).completed = e.completed

----------------------------------------------------------------------------
(* Properties of the schedule widget, checked under SpecForm *)

\* C30: after any sequence of handleFrequencyChange and toggleDay calls the
\* selected days are weekday keys, none of them twice (possibly none at all);
\* whenever the frequency is daily, weekdays or weekends they are exactly the
\* days of that option; and toggleDay always sets the frequency to custom.
C30_DaySetWellFormed ==
    /\ [](/\ \A k \in DOMAIN selectedDays : selectedDays[k] \in DayKeys
          /\ \A j, k \in DOMAIN selectedDays : j # k => selectedDays[j] # selectedDays[k]
          /\ formFrequency \in FrequencyButtons =>
                 Range(selectedDays) = FrequencyDays(formFrequency))
    /\ [][\A day \in DayKeys : toggleDay(day) => formFrequency' = "custom"]_vars

\* Monday was taken out and put back: it is at the end of the array, once
C30_Witness ==
    /\ formFrequency = "custom"
    /\ selectedDays = <<1, 2, 3, 4, 5, 6, 0>>

\* every day was taken out of the weekend preset
C30_WitnessEmpty ==
    /\ formFrequency = "custom"
    /\ selectedDays = <<>>
    /\ editing = 0

====
